---- MODULE Spec2Model ----
(***************************************************************************)
(* Sophus SO2Group (sophus/so2.hpp): planar rotations stored as a complex  *)
(* number of unit length, with the group operations, the constructors and  *)
(* the maps exp, log, hat and vee.                                         *)
(*                                                                         *)
(* Scalar is a binary floating-point type.  It is modelled as a binary     *)
(* floating-point number with a mantissa of MantissaBits bits, round to    *)
(* nearest even, and an unbounded exponent: a record [m, e] that stands    *)
(* for m * 2^e, with m = 0 and e = 0 for zero and                          *)
(* 2^(MantissaBits-1) <= |m| < 2^MantissaBits otherwise.  Every scalar     *)
(* operation of the code (product, sum, difference, quotient, square       *)
(* root) rounds its exact result to that format, as the hardware does for  *)
(* float and double.                                                       *)
(***************************************************************************)
EXTENDS Integers, Sequences, FiniteSets

(***************************************************************************)
(* Scalar arithmetic                                                       *)
(*                                                                         *)
(* An operator that reads an operand more than once binds it through a     *)
(* singleton set, {body : x \in {a}}, so that the operand is computed      *)
(* once, as a C++ argument is; The(S) is the element of the singleton S.   *)
(***************************************************************************)

\* Width of the mantissa of Scalar (24 for float, 53 for double).
MantissaBits == 8

The(S) == CHOOSE r \in S : TRUE

RECURSIVE Pow2(_)
Pow2(n) == IF n <= 0 THEN 1 ELSE 2 * Pow2(n - 1)

Abs(n) == IF n < 0 THEN -n ELSE n

Sgn(n) == IF n < 0 THEN -1 ELSE IF n > 0 THEN 1 ELSE 0

RECURSIVE BitLen(_)
BitLen(a) == IF a = 0 THEN 0 ELSE 1 + BitLen(a \div 2)

\* a / 2^k for a >= 0 and k >= 1, rounded to the nearest integer, ties to even.
RoundShift(a, k) ==
  The({IF r > half \/ (r = half /\ q % 2 = 1) THEN q + 1 ELSE q :
         q \in {a \div Pow2(k)}, r \in {a % Pow2(k)}, half \in {Pow2(k - 1)}})

FZero == [m |-> 0, e |-> 0]

\* The Scalar nearest to the integer m times 2^e, where m has n bits.
NormBits(m, e, n) ==
  IF m = 0 THEN FZero
  ELSE IF n <= MantissaBits
       THEN [m |-> m * Pow2(MantissaBits - n), e |-> e - (MantissaBits - n)]
       ELSE The({IF q = Pow2(MantissaBits)
                 THEN [m |-> Sgn(m) * Pow2(MantissaBits - 1),
                       e |-> e + (n - MantissaBits) + 1]
                 ELSE [m |-> Sgn(m) * q, e |-> e + (n - MantissaBits)] :
                   q \in {RoundShift(Abs(m), n - MantissaBits)}})

\* The Scalar nearest to the integer m0 times 2^e0.
Norm(m0, e0) ==
  The({NormBits(m, e, BitLen(Abs(m))) : m \in {m0}, e \in {e0}})

\* The Scalar of an integer.
FInt(n) == Norm(n, 0)

FNeg(a) == The({[m |-> -x.m, e |-> x.e] : x \in {a}})

FAbs(a) == The({[m |-> Abs(x.m), e |-> x.e] : x \in {a}})

FMul(a, b) == The({Norm(x.m * y.m, x.e + y.e) : x \in {a}, y \in {b}})

\* hi + lo, where the exponent of hi is not below that of lo.
AddAligned(hi, lo) ==
  IF hi.e - lo.e >= MantissaBits + 2 THEN hi
  ELSE Norm(hi.m * Pow2(hi.e - lo.e) + lo.m, lo.e)

FAdd(a, b) ==
  The({IF x.m = 0 THEN y
       ELSE IF y.m = 0 THEN x
       ELSE IF x.e >= y.e THEN AddAligned(x, y) ELSE AddAligned(y, x) :
         x \in {a}, y \in {b}})

FSub(a, b) == FAdd(a, FNeg(b))

\* a / b for b # 0: the quotient is taken to MantissaBits + 2 bits and a
\* sticky bit, which is enough to round it correctly.
FDiv(a, b) ==
  The({Norm(Sgn(x.m) * Sgn(y.m)
              * (2 * (num \div Abs(y.m)) + (IF num % Abs(y.m) = 0 THEN 0 ELSE 1)),
            x.e - y.e - (MantissaBits + 2) - 1) :
         <<x, y, num>> \in {<<a1, b1, Abs(a1.m) * Pow2(MantissaBits + 2)>> :
                              a1 \in {a}, b1 \in {b}}})

\* The integer square root of n >= 0, found one bit at a time from bit b down.
RECURSIVE ISqrtBits(_, _, _)
ISqrtBits(n, r, b) ==
  IF b < 0 THEN r
  ELSE IF (r + Pow2(b)) * (r + Pow2(b)) <= n
       THEN ISqrtBits(n, r + Pow2(b), b - 1)
       ELSE ISqrtBits(n, r, b - 1)

ISqrt(n) == ISqrtBits(n, 0, (BitLen(n) + 1) \div 2)

\* sqrt(m * 2^e) for m > 0 and e even, correctly rounded.
SqrtEven(m, e) ==
  The({Norm(2 * s + (IF s * s = m THEN 0 ELSE 1), (e \div 2) - 1) :
         s \in {ISqrt(m)}})

\* sqrt(a) for a >= 0, correctly rounded.
FSqrt(a) ==
  The({IF x.m = 0 THEN FZero
       ELSE IF (x.e - (MantissaBits + 4)) % 2 = 0
            THEN SqrtEven(x.m * Pow2(MantissaBits + 4), x.e - (MantissaBits + 4))
            ELSE SqrtEven(x.m * Pow2(MantissaBits + 5), x.e - (MantissaBits + 5)) :
         x \in {a}})

\* a < b
FLt(a, b) ==
  The({IF Sgn(x.m) # Sgn(y.m) THEN Sgn(x.m) < Sgn(y.m)
       ELSE IF x.m = 0 THEN FALSE
       ELSE IF x.m > 0
            THEN x.e < y.e \/ (x.e = y.e /\ x.m < y.m)
            ELSE x.e > y.e \/ (x.e = y.e /\ x.m < y.m) :
         x \in {a}, y \in {b}})

FGt(a, b) == FLt(b, a)

FLe(a, b) == ~FLt(b, a)

(***************************************************************************)
(* The library functions cos, sin and atan2 that exp and log call         *)
(***************************************************************************)

\* pi, pi/2 and pi/4 as Scalars.
PI == Norm(3217, -10)

HalfPi == Norm(3217, -11)

QuarterPi == Norm(3217, -12)

\* The integer nearest to a.
FRoundToInt(a) ==
  The({IF x.e >= 0 THEN x.m * Pow2(x.e)
       ELSE Sgn(x.m) * RoundShift(Abs(x.m), -x.e) : x \in {a}})

\* 1 - r2/2 + r2^2/24 - r2^3/720, the terms each made from the one before.
CosTerms(r2, t2, t4) ==
  FSub(FAdd(FSub(FInt(1), t2), t4), FDiv(FMul(t4, r2), FInt(30)))

\* cos r for |r| <= pi/4, by its power series.
CosSeries(r) ==
  The({CosTerms(r2, t2, FDiv(FMul(t2, r2), FInt(12))) :
         <<r2, t2>> \in {<<q, FDiv(q, FInt(2))>> : q \in {FMul(r, r)}}})

\* r - r^3/6 + r^5/120 - r^7/5040, the terms each made from the one before.
SinTerms(r, r2, t3, t5) ==
  FSub(FAdd(FSub(r, t3), t5), FDiv(FMul(t5, r2), FInt(42)))

\* sin r for |r| <= pi/4, by its power series.
SinSeries(r) ==
  The({The({SinTerms(x, r2, t3, FDiv(FMul(t3, r2), FInt(20))) :
              t3 \in {FDiv(FMul(x, r2), FInt(6))}}) :
         <<x, r2>> \in {<<r0, FMul(r0, r0)>> : r0 \in {r}}})

\* The quadrant of theta and what is left of theta in it.
Quadrant(theta) == FRoundToInt(FDiv(theta, HalfPi))

Reduced(theta, q) == FSub(theta, FMul(FInt(q), HalfPi))

\* cos and sin of a theta that lies in quadrant q, r away from its middle.
CosIn(q, r) ==
  CASE q = 0 -> CosSeries(r)
    [] q = 1 -> FNeg(SinSeries(r))
    [] q = 2 -> FNeg(CosSeries(r))
    [] q = 3 -> SinSeries(r)

SinIn(q, r) ==
  CASE q = 0 -> SinSeries(r)
    [] q = 1 -> CosSeries(r)
    [] q = 2 -> FNeg(SinSeries(r))
    [] q = 3 -> FNeg(CosSeries(r))

cos(theta) ==
  The({CosIn(q % 4, r) :
         <<q, r>> \in {<<k, Reduced(t, k)>> :
                         <<t, k>> \in {<<t0, Quadrant(t0)>> : t0 \in {theta}}}})

sin(theta) ==
  The({SinIn(q % 4, r) :
         <<q, r>> \in {<<k, Reduced(t, k)>> :
                         <<t, k>> \in {<<t0, Quadrant(t0)>> : t0 \in {theta}}}})

\* u - u^3/3 + u^5/5 - u^7/7
AtanTerms(u, u2, u3, u5) ==
  FSub(FAdd(FSub(u, FDiv(u3, FInt(3))), FDiv(u5, FInt(5))),
       FDiv(FMul(u5, u2), FInt(7)))

\* atan u for 0 <= u <= tan(pi/8), by its power series.
AtanSeries(u) ==
  The({The({AtanTerms(x, u2, u3, FMul(u3, u2)) : u3 \in {FMul(x, u2)}}) :
         <<x, u2>> \in {<<u0, FMul(u0, u0)>> : u0 \in {u}}})

\* atan t for 0 <= t <= 1.
AtanUnit(t) ==
  The({IF FGt(x, Norm(106, -8))
       THEN FSub(QuarterPi, AtanSeries(FDiv(FSub(FInt(1), x), FAdd(FInt(1), x))))
       ELSE AtanSeries(x) : x \in {t}})

\* The angle of the point (ax, ay) of the first quadrant.
AtanQuadrant(ax, ay) ==
  IF FLe(ay, ax) THEN AtanUnit(FDiv(ay, ax))
  ELSE FSub(HalfPi, AtanUnit(FDiv(ax, ay)))

\* atan2(y, x): the angle of the point (x, y), in (-pi, pi].
atan2(y, x) ==
  The({IF x1.m = 0 /\ y1.m = 0 THEN FZero
       ELSE The({IF y1.m < 0
                 THEN FNeg(IF x1.m >= 0 THEN a ELSE FSub(PI, a))
                 ELSE IF x1.m >= 0 THEN a ELSE FSub(PI, a) :
                   a \in {AtanQuadrant(FAbs(x1), FAbs(y1))}}) :
         x1 \in {x}, y1 \in {y}})

(***************************************************************************)
(* SO2GroupBase and SO2Group                                               *)
(*                                                                         *)
(* A complex number is a record [x, y] (real and imaginary part), a 2x2    *)
(* matrix a record [m00, m01, m10, m11].  The assertions of the code are   *)
(* active: an operation that can fail one returns [ok, c] with ok = FALSE  *)
(* when the assertion fails and c the pair stored at that moment.          *)
(***************************************************************************)

\* SophusConstants<Scalar>::epsilon() of sophus.hpp.
Epsilon == Norm(1, -4)

Complex(x, y) == [x |-> x, y |-> y]

Matrix2(m00, m01, m10, m11) == [m00 |-> m00, m01 |-> m01, m10 |-> m10, m11 |-> m11]

\* SO2GroupBase::normalize
normalize(c) ==
  The({IF FGt(length, Epsilon)
       THEN [ok |-> TRUE, c |-> Complex(FDiv(z.x, length), FDiv(z.y, length))]
       ELSE [ok |-> FALSE, c |-> z] :
         <<z, length>> \in {<<c1, FSqrt(FAdd(FMul(c1.x, c1.x), FMul(c1.y, c1.y)))>> :
                              c1 \in {c}}})

\* A faulty SO2Group::normalize: the assertion is length >= epsilon.
SO2Group_normalize_inclusive(c) ==
  The({IF FLe(Epsilon, length)
       THEN [ok |-> TRUE, c |-> Complex(FDiv(z.x, length), FDiv(z.y, length))]
       ELSE [ok |-> FALSE, c |-> z] :
         <<z, length>> \in {<<c1, FSqrt(FAdd(FMul(c1.x, c1.x), FMul(c1.y, c1.y)))>> :
                              c1 \in {c}}})

\* SO2Group::normalize
SO2Group_normalize(c) ==
  The({IF FGt(length, Epsilon)
       THEN [ok |-> TRUE, c |-> Complex(FDiv(z.x, length), FDiv(z.y, length))]
       ELSE [ok |-> FALSE, c |-> z] :
         <<z, length>> \in {<<c1, FSqrt(FAdd(FMul(c1.x, c1.x), FMul(c1.y, c1.y)))>> :
                              c1 \in {c}}})

\* A faulty fastMultiply: the imaginary part is a difference.
fastMultiply_signFlipped(s, this, other) ==
  The({[s1 EXCEPT ![this].y =
          FSub(FMul(lhs_real, s1[other].y), FMul(lhs_imag, s1[other].x))] :
         <<lhs_real, lhs_imag, s1>> \in
           {<<s0[this].x, s0[this].y,
              [s0 EXCEPT ![this].x = FSub(FMul(s0[this].x, s0[other].x),
                                          FMul(s0[this].y, s0[other].y))]>> :
              s0 \in {s}}})

\* SO2GroupBase::fastMultiply on the objects this and other of the store s.
\* lhs_real and lhs_imag are copies; rhs_real and rhs_imag are references
\* into other, read when they are used: the imaginary part is computed
\* from the store s1, in which the real part of this has been written.
fastMultiply(s, this, other) ==
  The({[s1 EXCEPT ![this].y =
          FAdd(FMul(lhs_real, s1[other].y), FMul(lhs_imag, s1[other].x))] :
         <<lhs_real, lhs_imag, s1>> \in
           {<<s0[this].x, s0[this].y,
              [s0 EXCEPT ![this].x = FSub(FMul(s0[this].x, s0[other].x),
                                          FMul(s0[this].y, s0[other].y))]>> :
              s0 \in {s}}})

\* A faulty operator*=: normalize() is not called.
mulAssign_unnormalized(s, this, other) ==
  [ok |-> TRUE, s |-> fastMultiply(s, this, other)]

\* A faulty operator*=: fastMultiply() is not called.
mulAssign_unmultiplied(s, this, other) ==
  The({[ok |-> n.ok, s |-> [s1 EXCEPT ![this] = n.c]] :
         <<s1, n>> \in {<<t, normalize(t[this])>> : t \in {s}}})

\* SO2GroupBase::operator*= on the objects this and other of the store s.
mulAssign(s, this, other) ==
  The({[ok |-> n.ok, s |-> [s1 EXCEPT ![this] = n.c]] :
         <<s1, n>> \in {<<t, normalize(t[this])>> :
                          t \in {fastMultiply(s, this, other)}}})

\* SO2GroupBase::operator*(SO2Group): the local object result is a copy of
\* this, and other is another object even when it is this.
multiply(this, other) ==
  The({[ok |-> r.ok, c |-> r.s["result"]] :
         r \in {mulAssign([result |-> this, other |-> other], "result", "other")}})

\* SO2Group::SO2Group()
SO2Group_default == Complex(FInt(1), FZero)

\* A faulty (real, imag) constructor: the squared norm is not asserted.
SO2Group_realimag_unchecked(real, imag) ==
  The({SO2Group_normalize(Complex(re, im)) : re \in {real}, im \in {imag}})

\* SO2Group::SO2Group(const Scalar & real, const Scalar & imag)
SO2Group_realimag(real, imag) ==
  The({IF FGt(FAdd(FMul(re, re), FMul(im, im)), Epsilon)
       THEN SO2Group_normalize(Complex(re, im))
       ELSE [ok |-> FALSE, c |-> Complex(re, im)] :
         re \in {real}, im \in {imag}})

\* SO2Group::SO2Group(const ComplexType & complex)
SO2Group_vector(complex) ==
  The({IF FGt(FAdd(FMul(z.x, z.x), FMul(z.y, z.y)), Epsilon)
       THEN SO2Group_normalize(z)
       ELSE [ok |-> FALSE, c |-> z] : z \in {complex}})

\* SO2Group::SO2Group(const std::complex<Scalar> & complex)
SO2Group_stdcomplex(complex) ==
  The({IF FGt(FAdd(FMul(z.x, z.x), FMul(z.y, z.y)), Epsilon)
       THEN SO2Group_normalize(Complex(z.x, z.y))
       ELSE [ok |-> FALSE, c |-> Complex(z.x, z.y)] : z \in {complex}})

\* SO2Group::SO2Group(const Matrix<Scalar,2,2> & R)
SO2Group_matrix(R) ==
  The({Complex(FMul(Norm(1, -1), FAdd(M.m00, M.m11)),
               FMul(Norm(1, -1), FSub(M.m10, M.m01))) : M \in {R}})

\* A faulty inverse: the imaginary part is not negated.
inverse_unconjugated(c) == The({SO2Group_realimag(z.x, z.y) : z \in {c}})

\* SO2GroupBase::inverse
inverse(c) == The({SO2Group_realimag(z.x, FNeg(z.y)) : z \in {c}})

\* SO2GroupBase::matrix
matrix(c) == The({Matrix2(z.x, FNeg(z.y), z.y, z.x) : z \in {c}})

\* A faulty action: the point is multiplied by the transposed matrix.
act_transposed(c, p) ==
  The({Complex(FAdd(FMul(z.x, q.x), FMul(z.y, q.y)),
               FSub(FMul(z.x, q.y), FMul(z.y, q.x))) : z \in {c}, q \in {p}})

\* SO2GroupBase::operator*(Matrix<Scalar,2,1>): the action on a point.
act(c, p) ==
  The({Complex(FSub(FMul(z.x, q.x), FMul(z.y, q.y)),
               FAdd(FMul(z.y, q.x), FMul(z.x, q.y))) : z \in {c}, q \in {p}})

\* SO2GroupBase::setComplex
setComplex(complex) ==
  The({IF z.x.m = 0 /\ z.y.m = 0
       THEN [ok |-> FALSE, c |-> z]
       ELSE normalize(z) : z \in {complex}})

\* SO2GroupBase::exp
exp(theta) == The({SO2Group_vector(Complex(cos(t), sin(t))) : t \in {theta}})

\* SO2Group::SO2Group(Scalar theta)
SO2Group_angle(theta) == exp(theta)

\* A faulty log: the arguments of atan2 are exchanged.
log_swapped(c) == The({atan2(z.x, z.y) : z \in {c}})

\* SO2GroupBase::log
log(c) == The({atan2(z.y, z.x) : z \in {c}})

\* SO2GroupBase::hat
hat(theta) == The({Matrix2(FZero, FNeg(t), t, FZero) : t \in {theta}})

\* A faulty vee: the entry above the diagonal is returned.
vee_upper(Omega) ==
  The({[ok |-> FLt(FAbs(FAdd(M.m10, M.m01)), Epsilon), v |-> M.m01] :
         M \in {Omega}})

\* SO2GroupBase::vee
vee(Omega) ==
  The({[ok |-> FLt(FAbs(FAdd(M.m10, M.m01)), Epsilon), v |-> M.m10] :
         M \in {Omega}})

(***************************************************************************)
(* A program that uses the class                                           *)
(*                                                                         *)
(* obj     the unit_complex_ of the objects A and B and of result, the     *)
(*         temporary that operator* and inverse() return                   *)
(* raw     the objects written by fastMultiply() or through data() since   *)
(*         they were last constructed or normalized                        *)
(* failed  an assertion of the code has failed: the program has aborted    *)
(* steps   the number of operations done                                   *)
(* last    the operation done last: its name, receiver, operand, input,    *)
(*         and the receiver and the operand as they were before it         *)
(* law     the terms of the identity evaluated last (SpecLaws)             *)
(***************************************************************************)
VARIABLES obj, raw, failed, steps, last, law

vars == <<obj, raw, failed, steps, last, law>>

\* The most operations one run of the program does.
MaxOps == 3

Names == {"A", "B", "result"}

\* The object the program constructs again and mutates; B is only read.
Receivers == {"A"}

ZeroComplex == Complex(FZero, FZero)

\* Angles the program builds rotations from.
Angles == {Norm(1, -1), FInt(2), FInt(-3)}

\* Real/imag pairs, 2-vectors and complex numbers given to the constructors:
\* zero, squared norm below and equal to epsilon, and longer ones.
CtorPairs ==
  {ZeroComplex, Complex(Norm(1, -3), FZero), Complex(FZero, Norm(-1, -2)),
   Complex(FInt(3), FInt(4)), Complex(FInt(-1), FInt(1))}

\* Pairs given to setComplex().
SetPairs ==
  {ZeroComplex, Complex(Norm(1, -5), FZero), Complex(FInt(3), FInt(4)),
   Complex(FZero, FInt(-2))}

\* Pairs written through data(): zero, norm equal to epsilon, norm just
\* above it, and longer ones.
RawPairs ==
  {ZeroComplex, Complex(Epsilon, FZero), Complex(FZero, Norm(17, -8)),
   Complex(FInt(2), FZero), Complex(FInt(-5), FInt(12))}

\* Rotation matrices: orthogonal, with determinant 1.
RotationMatrices ==
  {Matrix2(FZero, FInt(-1), FInt(1), FZero), matrix(exp(FInt(2)).c)}

NoOp ==
  [op |-> "none", rcv |-> "A", arg |-> "A", pin |-> ZeroComplex,
   pre |-> ZeroComplex, prearg |-> ZeroComplex, wasfresh |-> FALSE]

NoLaw ==
  [name |-> "none", p |-> ZeroComplex, th |-> FZero,
   mat |-> Matrix2(FZero, FZero, FZero, FZero), ok |-> TRUE,
   r1 |-> ZeroComplex, r2 |-> ZeroComplex, s1 |-> FZero,
   m1 |-> Matrix2(FZero, FZero, FZero, FZero)]

\* The objects A and B have been constructed from an angle.
Init ==
  /\ \E a \in Angles :
       obj = [A |-> SO2Group_angle(a).c, B |-> SO2Group_angle(FInt(2)).c,
              result |-> SO2Group_default]
  /\ raw = {}
  /\ failed = FALSE
  /\ steps = 0
  /\ last = NoOp
  /\ law = NoLaw

\* One operation op of receiver rcv with operand arg and input pin, which
\* leaves the store newobj and the raw objects newraw; ok is FALSE when an
\* assertion failed in it.
Does(op, rcv, arg, pin, newobj, newraw, ok) ==
  /\ ~failed
  /\ steps < MaxOps
  /\ obj' = newobj
  /\ raw' = IF ok THEN newraw ELSE raw
  /\ failed' = ~ok
  /\ steps' = steps + 1
  /\ last' = [op |-> op, rcv |-> rcv, arg |-> arg, pin |-> pin,
              pre |-> obj[rcv], prearg |-> obj[arg],
              wasfresh |-> (last.op = "normalize" /\ last.rcv = rcv)]
  /\ UNCHANGED law

\* o = SO2Group()
CtorDefault(o) ==
  Does("default", o, o, ZeroComplex,
       [obj EXCEPT ![o] = SO2Group_default], raw \ {o}, TRUE)

\* o = SO2Group(theta)
CtorAngle(o, theta) ==
  LET r == SO2Group_angle(theta)
  IN  Does("angle", o, o, Complex(theta, FZero),
           [obj EXCEPT ![o] = r.c], raw \ {o}, r.ok)

\* o = SO2Group(real, imag)
CtorRealImag(o, p) ==
  LET r == SO2Group_realimag(p.x, p.y)
  IN  Does("realimag", o, o, p, [obj EXCEPT ![o] = r.c], raw \ {o}, r.ok)

\* o = SO2Group(Matrix<Scalar,2,1>)
CtorVector(o, p) ==
  LET r == SO2Group_vector(p)
  IN  Does("vector", o, o, p, [obj EXCEPT ![o] = r.c], raw \ {o}, r.ok)

\* o = SO2Group(std::complex<Scalar>)
CtorStdComplex(o, p) ==
  LET r == SO2Group_stdcomplex(p)
  IN  Does("stdcomplex", o, o, p, [obj EXCEPT ![o] = r.c], raw \ {o}, r.ok)

\* o = SO2Group(R)
CtorMatrix(o, R) ==
  Does("matrix", o, o, Complex(R.m00, R.m10),
       [obj EXCEPT ![o] = SO2Group_matrix(R)], raw \ {o}, TRUE)

\* o = SO2Group(src), the copy constructor, and o = src, operator=
CtorCopy(o, src) ==
  Does("copy", o, src, ZeroComplex, [obj EXCEPT ![o] = obj[src]],
       IF src \in raw THEN raw \cup {o} ELSE raw \ {o}, TRUE)

\* o.fastMultiply(other)
FastMultiply(o, other) ==
  Does("fastMultiply", o, other, ZeroComplex,
       fastMultiply(obj, o, other), raw \cup {o}, TRUE)

\* o *= other
MulAssign(o, other) ==
  LET r == mulAssign(obj, o, other)
  IN  Does("mulAssign", o, other, ZeroComplex, r.s, raw \ {o}, r.ok)

\* o.normalize()
Normalize(o) ==
  LET r == SO2Group_normalize(obj[o])
  IN  Does("normalize", o, o, ZeroComplex,
           [obj EXCEPT ![o] = r.c], raw \ {o}, r.ok)

\* o.setComplex(p)
SetComplex(o, p) ==
  LET r == setComplex(p)
  IN  Does("setComplex", o, o, p, [obj EXCEPT ![o] = r.c], raw \ {o}, r.ok)

\* A write of p through o.data()
DataWrite(o, p) ==
  Does("data", o, o, p, [obj EXCEPT ![o] = p], raw \cup {o}, TRUE)

\* result = a * b
Multiply(a, b) ==
  LET r == multiply(obj[a], obj[b])
  IN  Does("multiply", a, b, ZeroComplex,
           [obj EXCEPT !["result"] = r.c], raw, r.ok)

\* result = a.inverse()
Inverse(a) ==
  LET r == inverse(obj[a])
  IN  Does("inverse", a, a, ZeroComplex,
           [obj EXCEPT !["result"] = r.c], raw, r.ok)

Next ==
  \/ \E o \in Receivers : CtorDefault(o)
  \/ \E o \in Receivers, theta \in Angles : CtorAngle(o, theta)
  \/ \E o \in Receivers, p \in CtorPairs : CtorRealImag(o, p)
  \/ \E o \in Receivers, p \in CtorPairs : CtorVector(o, p)
  \/ \E o \in Receivers, p \in CtorPairs : CtorStdComplex(o, p)
  \/ \E o \in Receivers, R \in RotationMatrices : CtorMatrix(o, R)
  \/ \E o \in Receivers : \E src \in Names \ {o} : CtorCopy(o, src)
  \/ \E o \in Receivers, other \in Names : FastMultiply(o, other)
  \/ \E o \in Receivers, other \in Names : MulAssign(o, other)
  \/ \E o \in Receivers : Normalize(o)
  \/ \E o \in Receivers, p \in SetPairs : SetComplex(o, p)
  \/ \E o \in Receivers, p \in RawPairs : DataWrite(o, p)
  \/ \E a \in Names, b \in Names : Multiply(a, b)
  \/ \E a \in Names : Inverse(a)

Spec == Init /\ [][Next]_vars
(***************************************************************************)
(* Deferred against eager normalization: A is multiplied by a sequence of  *)
(* rotations with fastMultiply() and normalized once at the end, B starts  *)
(* as a copy of A and is multiplied by the same rotations with operator*=. *)
(* The operand of every step is the object result, which is neither A nor  *)
(* B.                                                                      *)
(***************************************************************************)

\* The longest sequence of operands.
MaxChain == 3

\* The rotations the sequences are made of, each made by a constructor.
ChainRotations ==
  {SO2Group_angle(Norm(1, -1)).c, SO2Group_angle(FInt(2)).c,
   SO2Group_angle(FInt(-3)).c, SO2Group_realimag(FInt(3), FInt(4)).c,
   SO2Group_vector(Complex(FInt(-1), FInt(1))).c,
   SO2Group_matrix(Matrix2(FZero, FInt(-1), FInt(1), FZero))}

InitChain ==
  /\ \E a \in ChainRotations : obj = [A |-> a, B |-> a, result |-> SO2Group_default]
  /\ raw = {}
  /\ failed = FALSE
  /\ steps = 0
  /\ last = NoOp
  /\ law = NoLaw

\* result = b; A.fastMultiply(result); B *= result
ChainStep(b) ==
  LET s0 == [obj EXCEPT !["result"] = b]
      s1 == fastMultiply(s0, "A", "result")
      r == mulAssign(s1, "B", "result")
  IN  /\ ~failed
      /\ steps < MaxChain
      /\ last.op \in {"none", "chainStep"}
      /\ obj' = r.s
      /\ raw' = {"A"}
      /\ failed' = ~r.ok
      /\ steps' = steps + 1
      /\ last' = [NoOp EXCEPT !.op = "chainStep", !.rcv = "A", !.arg = "result",
                              !.pre = obj["A"], !.prearg = b]
      /\ UNCHANGED law

\* A.normalize()
ChainEnd ==
  LET r == SO2Group_normalize(obj["A"])
  IN  /\ ~failed
      /\ last.op = "chainStep"
      /\ obj' = [obj EXCEPT !["A"] = r.c]
      /\ raw' = IF r.ok THEN {} ELSE raw
      /\ failed' = ~r.ok
      /\ last' = [NoOp EXCEPT !.op = "chainEnd", !.rcv = "A", !.pre = obj["A"]]
      /\ UNCHANGED <<steps, law>>

NextChain ==
  \/ \E b \in ChainRotations : ChainStep(b)
  \/ ChainEnd

SpecChain == InitChain /\ [][NextChain]_vars

(***************************************************************************)
(* The identities of the group and of its maps, each evaluated on the      *)
(* rotations A, B and result (here the third rotation, C) and on an input  *)
(* of its own, once; law holds the terms it computed.                      *)
(***************************************************************************)

\* The rotations the identities are evaluated on, each made by a constructor.
LawRotations ==
  {SO2Group_default, SO2Group_angle(Norm(1, -1)).c, SO2Group_angle(FInt(2)).c,
   SO2Group_angle(PI).c, SO2Group_angle(Norm(-5, -1)).c,
   SO2Group_realimag(FInt(3), FInt(4)).c,
   SO2Group_vector(Complex(FInt(5), FInt(-12))).c}

\* Points of the plane.
LawPoints ==
  {ZeroComplex, Complex(FInt(1), FZero), Complex(FInt(-1), FInt(2)),
   Complex(Norm(1, -1), Norm(-3, -1)), Complex(Norm(-7, -2), Norm(-3, -3))}

\* Angles, inside (-pi, pi] and outside of it.
LawAngles ==
  {FZero, Norm(1, -1), FInt(1), FInt(2), FInt(3), PI, HalfPi, FInt(-1),
   Norm(-5, -1), FInt(-3), FNeg(PI), FInt(4), FInt(-4), FInt(6)}

\* 2x2 matrices: images of hat, and matrices that are not skew-symmetric.
LawMatrices ==
  {hat(FZero), hat(FInt(1)), hat(Norm(-5, -1)), hat(PI),
   Matrix2(FInt(1), FZero, FZero, FInt(1)),
   Matrix2(FZero, FInt(-1), Norm(33, -5), FZero),
   Matrix2(FZero, FInt(1), FInt(1), FZero),
   Matrix2(FInt(2), FInt(-3), FInt(3), FZero)}

InitLaws ==
  /\ \E a \in LawRotations, b \in LawRotations, c \in LawRotations :
       obj = [A |-> a, B |-> b, result |-> c]
  /\ raw = {}
  /\ failed = FALSE
  /\ steps = 0
  /\ last = NoOp
  /\ law = NoLaw

\* p = A.inverse(), r1 = A * A.inverse(), r2 = A.inverse().inverse()
LawInverse ==
  LET a == obj["A"]
      i == inverse(a)
      prod == multiply(a, i.c)
      ii == inverse(i.c)
  IN  /\ law.name = "none"
      /\ law' = [NoLaw EXCEPT !.name = "inverse", !.p = i.c, !.r1 = prod.c,
                              !.r2 = ii.c, !.ok = (i.ok /\ prod.ok /\ ii.ok)]
      /\ UNCHANGED <<obj, raw, failed, steps, last>>

\* r1 = (A * B) * C, r2 = A * (B * C)
LawAssociative ==
  LET a == obj["A"]
      b == obj["B"]
      c == obj["result"]
      ab == multiply(a, b)
      bc == multiply(b, c)
      l == multiply(ab.c, c)
      r == multiply(a, bc.c)
  IN  /\ law.name = "none"
      /\ law' = [NoLaw EXCEPT !.name = "associative", !.r1 = l.c, !.r2 = r.c,
                              !.ok = (ab.ok /\ bc.ok /\ l.ok /\ r.ok)]
      /\ UNCHANGED <<obj, raw, failed, steps, last>>

\* r1 = A * B, r2 = B * A
LawCommutative ==
  LET ab == multiply(obj["A"], obj["B"])
      ba == multiply(obj["B"], obj["A"])
  IN  /\ law.name = "none"
      /\ law' = [NoLaw EXCEPT !.name = "commutative", !.r1 = ab.c, !.r2 = ba.c,
                              !.ok = (ab.ok /\ ba.ok)]
      /\ UNCHANGED <<obj, raw, failed, steps, last>>

\* r1 = A * (A.inverse() * p)
LawAction(p) ==
  LET a == obj["A"]
      i == inverse(a)
  IN  /\ law.name = "none"
      /\ law' = [NoLaw EXCEPT !.name = "action", !.p = p,
                              !.r1 = act(a, act(i.c, p)), !.r2 = act(a, p),
                              !.ok = i.ok]
      /\ UNCHANGED <<obj, raw, failed, steps, last>>

\* s1 = vee(hat(theta))
LawVeeHat(theta) ==
  LET v == vee(hat(theta))
  IN  /\ law.name = "none"
      /\ law' = [NoLaw EXCEPT !.name = "veehat", !.th = theta, !.mat = hat(theta),
                              !.s1 = v.v, !.ok = v.ok]
      /\ UNCHANGED <<obj, raw, failed, steps, last>>

\* m1 = hat(vee(M))
LawHatVee(M) ==
  LET v == vee(M)
  IN  /\ law.name = "none"
      /\ law' = [NoLaw EXCEPT !.name = "hatvee", !.mat = M, !.s1 = v.v,
                              !.m1 = hat(v.v), !.ok = v.ok]
      /\ UNCHANGED <<obj, raw, failed, steps, last>>

\* r1 = exp(theta), s1 = log(exp(theta))
LawLogExp(theta) ==
  LET x == exp(theta)
  IN  /\ law.name = "none"
      /\ law' = [NoLaw EXCEPT !.name = "logexp", !.th = theta, !.r1 = x.c,
                              !.s1 = log(x.c), !.ok = x.ok]
      /\ UNCHANGED <<obj, raw, failed, steps, last>>

\* s1 = log(A), r1 = exp(log(A))
LawExpLog ==
  LET x == exp(log(obj["A"]))
  IN  /\ law.name = "none"
      /\ law' = [NoLaw EXCEPT !.name = "explog", !.s1 = log(obj["A"]),
                              !.r1 = x.c, !.ok = x.ok]
      /\ UNCHANGED <<obj, raw, failed, steps, last>>

NextLaws ==
  \/ LawInverse
  \/ LawAssociative
  \/ LawCommutative
  \/ \E p \in LawPoints : LawAction(p)
  \/ \E theta \in LawAngles : LawVeeHat(theta)
  \/ \E M \in LawMatrices : LawHatVee(M)
  \/ \E theta \in LawAngles : LawLogExp(theta)
  \/ LawExpLog

SpecLaws == InitLaws /\ [][NextLaws]_vars
(***************************************************************************)
(* The properties.  Two Scalars are equal within tolerance when they       *)
(* differ by epsilon at most, the tolerance the library's own tests use;   *)
(* where a property holds exactly it is stated with =.                     *)
(***************************************************************************)

\* real^2 + imag^2 and the Euclidean norm of a pair, computed in Scalar.
NormSq(c) == The({FAdd(FMul(z.x, z.x), FMul(z.y, z.y)) : z \in {c}})

Length(c) == FSqrt(NormSq(c))

Close(a, b) == FLe(FAbs(FSub(a, b)), Epsilon)

Near(c, d) == The({Close(u.x, v.x) /\ Close(u.y, v.y) : u \in {c}, v \in {d}})

IsUnit(c) == Close(NormSq(c), FInt(1))

\* c points the way p does: their cross product vanishes, within tolerance
\* times the length of p, and their inner product is positive.
SameDirection(p, c) ==
  The({/\ FLe(FAbs(FSub(FMul(u.x, v.y), FMul(u.y, v.x))), FMul(Epsilon, Length(u)))
       /\ FGt(FAdd(FMul(u.x, v.x), FMul(u.y, v.y)), FZero) :
         u \in {p}, v \in {c}})

\* C1: while the program runs, every object that has not been written by
\* fastMultiply() or through data() since it was last constructed or
\* normalized (nor copied from such an object) holds a pair of unit length:
\* real^2 + imag^2 = 1 within tolerance.  An object may violate this only
\* after such a write.
C1_UnitLength == ~failed => \A n \in Names \ raw : IsUnit(obj[n])

\* C1 witness: normalize() has brought a pair that was not of unit length
\* back to unit length.
C1_Witness ==
  /\ ~failed
  /\ last.op \in {"normalize", "mulAssign"}
  /\ ~IsUnit(last.pre)
  /\ IsUnit(obj[last.rcv])

PairCtors == {"realimag", "vector", "stdcomplex"}

C8_Normalize ==
  /\ last.op = "normalize" =>
       /\ failed <=> FLe(Length(last.pre), Epsilon)
       /\ ~failed => /\ IsUnit(obj[last.rcv])
                     /\ SameDirection(last.pre, obj[last.rcv])
                     /\ last.wasfresh => Near(obj[last.rcv], last.pre)
  /\ (last.op = "setComplex" /\ last.pin # ZeroComplex) =>
       /\ failed <=> FLe(Length(last.pin), Epsilon)
       /\ ~failed => IsUnit(obj[last.rcv]) /\ SameDirection(last.pin, obj[last.rcv])

\* C8 witness: the second of two normalize() in a row, after a write
\* through data() or a fastMultiply().
C8_Witness ==
  /\ last.op = "normalize"
  /\ last.wasfresh
  /\ ~failed
  /\ steps = 3

\* C10: after A *= B the receiver holds what A * B returned before, also
\* when B is A itself, and another object B is left as it was.
C10_InPlaceAgrees ==
  (last.op = "mulAssign" /\ ~failed) =>
    /\ Near(obj[last.rcv], multiply(last.pre, last.prearg).c)
    /\ last.arg # last.rcv => obj[last.arg] = last.prearg

\* C9: after the sequence of fastMultiply() and one normalize(), A holds
\* the pair that B holds after the same sequence of operator*=, within
\* tolerance, and it is of unit length.
C9_DeferredIsEager ==
  (last.op = "chainEnd" /\ ~failed) => Near(obj["A"], obj["B"]) /\ IsUnit(obj["A"])

\* C9 witness: a sequence of three rotations has been applied and
\* normalized, and it has turned A.
C9_Witness ==
  /\ last.op = "chainEnd"
  /\ ~failed
  /\ steps = 3
  /\ ~Near(obj["A"], SO2Group_default)
\* The complex conjugate and the complex product, computed in Scalar.
Conjugate(c) == The({Complex(z.x, FNeg(z.y)) : z \in {c}})

ComplexProduct(a, b) ==
  The({Complex(FSub(FMul(u.x, v.x), FMul(u.y, v.y)),
               FAdd(FMul(u.x, v.y), FMul(u.y, v.x))) : u \in {a}, v \in {b}})

\* C2: A.inverse() is the conjugate of A, A * A.inverse() is the identity
\* (1, 0) and A.inverse().inverse() is A, each within tolerance, and no
\* assertion fails.
C2_InverseLaws ==
  law.name = "inverse" =>
    /\ law.ok
    /\ Near(law.p, Conjugate(obj["A"]))
    /\ Near(law.r1, SO2Group_default)
    /\ Near(law.r2, obj["A"])

\* C2 witness: the inverse of a rotation that is not its own inverse.
C2_Witness ==
  /\ law.name = "inverse"
  /\ ~Near(law.p, obj["A"])
  /\ Near(law.r2, obj["A"])

\* C3: (A*B)*C is A*(B*C) within tolerance; A*B is B*A exactly, and it is
\* the complex product of the two pairs, of unit length.
C3_AssociativeCommutative ==
  /\ law.name = "associative" => law.ok /\ Near(law.r1, law.r2)
  /\ law.name = "commutative" =>
       /\ law.ok
       /\ law.r1 = law.r2
       /\ Near(law.r1, ComplexProduct(obj["A"], obj["B"]))
       /\ IsUnit(law.r1)

\* C3 witness: a product of three rotations that is none of the three.
C3_Witness ==
  /\ law.name = "associative"
  /\ \A n \in Names : ~Near(law.r1, obj[n]) /\ ~Near(obj[n], SO2Group_default)
  /\ ~Near(obj["A"], obj["B"])
  /\ ~Near(obj["B"], obj["result"])

\* C4: A applied to (A.inverse() applied to p) is p within tolerance, and A
\* applied to (x, y) is (real*x - imag*y, imag*x + real*y).
C4_ActionRoundTrip ==
  law.name = "action" =>
    /\ law.ok
    /\ Near(law.r1, law.p)
    /\ Near(law.r2, ComplexProduct(obj["A"], law.p))

\* C4 witness: the round trip of a point that A moves.
C4_Witness ==
  /\ law.name = "action"
  /\ ~Near(law.r2, law.p)
  /\ Near(law.r1, law.p)

\* M is skew-symmetric with a zero diagonal: the image of hat.
IsSkew(M) == M.m00 = FZero /\ M.m11 = FZero /\ M.m01 = FNeg(M.m10)

\* C5 as amended: vee accepts hat(theta) and vee(hat(theta)) = theta
\* exactly; hat(vee(M)) = M for every M that is skew-symmetric with a zero
\* diagonal, and vee accepts every such M.
C5_HatVee ==
  /\ law.name = "veehat" => law.ok /\ law.s1 = law.th
  /\ (law.name = "hatvee" /\ IsSkew(law.mat)) => law.ok /\ law.m1 = law.mat

\* C5 as claimed: hat(vee(M)) = M for every M that vee accepts.
C5_AsClaimed ==
  /\ law.name = "veehat" => law.ok /\ law.s1 = law.th
  /\ (law.name = "hatvee" /\ law.ok) => law.m1 = law.mat

\* C5 witness: hat(vee(M)) for a skew-symmetric M that is not zero.
C5_Witness ==
  /\ law.name = "hatvee"
  /\ IsSkew(law.mat)
  /\ law.mat.m10 # FZero
  /\ law.m1 = law.mat

\* theta lies in (-pi, pi].
InRange(theta) == FLt(FNeg(PI), theta) /\ FLe(theta, PI)

\* C6: exp(theta) is (cos theta, sin theta), log(R) lies in (-pi, pi],
\* log(exp(theta)) is theta for theta in (-pi, pi] and exp(log(R)) is R,
\* each within tolerance, and no assertion fails.
C6_ExpLog ==
  /\ law.name = "logexp" =>
       /\ law.ok
       /\ Near(law.r1, Complex(cos(law.th), sin(law.th)))
       /\ InRange(law.s1)
       /\ InRange(law.th) => Close(law.s1, law.th)
  /\ law.name = "explog" =>
       /\ law.ok
       /\ InRange(law.s1)
       /\ Near(law.r1, obj["A"])

\* C6 witness: log(exp(theta)) for a theta of the second quadrant.
C6_Witness ==
  /\ law.name = "logexp"
  /\ InRange(law.th)
  /\ FLt(HalfPi, law.th)
  /\ Close(law.s1, law.th)
====
